---- MODULE Spec2Model ----
(***************************************************************************)
(* Model of src/lib/entity.ts: the union-find forest (makeUnionFind) and   *)
(* the controller-group resolver (computeControllerGroups).                *)
(*                                                                         *)
(* A JavaScript string is modelled as the sequence of its characters, each *)
(* character a one-character TLA+ string; Chars lists the characters used  *)
(* in ascending UTF-16 code-unit order, so that the order of two strings   *)
(* under JavaScript's < is the lexicographic order of their index lists.   *)
(***************************************************************************)
EXTENDS Integers, Sequences, FiniteSets, TLC

VARIABLES pc, parent, size, unions, input, evidenceByPair, groups, controllerIdByActor

vars == <<pc, parent, size, unions, input, evidenceByPair, groups, controllerIdByActor>>

(***************************************************************************)
(* Characters and strings                                                  *)
(***************************************************************************)
Range(s) == {s[i] : i \in 1..Len(s)}

Chars ==
  << "\n", " ", "-", ".", "/", "0", "1", "2", "3", "4", "5", "6", "7", "8", "9",
     ":", "A", "B", "C", "D", "E", "F", "_", "a", "b", "c", "d", "e", "f", "g",
     "h", "i", "j", "k", "l", "m", "n", "o", "p", "q", "r", "s", "t", "u", "v",
     "w", "x", "y", "z", "|" >>

Code(c) == CHOOSE i \in 1..Len(Chars) : Chars[i] = c

UpperLetters == << "A", "B", "C", "D", "E", "F" >>
LowerLetters == << "a", "b", "c", "d", "e", "f" >>

\* String.prototype.toLowerCase, one character
LowerChar(c) ==
  IF \E i \in 1..Len(UpperLetters) : UpperLetters[i] = c
    THEN LowerLetters[CHOOSE i \in 1..Len(UpperLetters) : UpperLetters[i] = c]
    ELSE c

\* String.prototype.toLowerCase
toLowerCase(s) == [i \in 1..Len(s) |-> LowerChar(s[i])]

Digits == {"0", "1", "2", "3", "4", "5", "6", "7", "8", "9"}

\* [a-fA-F0-9]
IsHex(c) == c \in Digits \cup Range(UpperLetters) \cup Range(LowerLetters)

\* \w of a regular expression: letters, digits and the underscore
IsWordChar(c) == c \notin {"\n", " ", "-", ".", "/", ":", "|"}

\* the white space String.prototype.trim removes
IsSpace(c) == c \in {"\n", " "}

RECURSIVE LexLess(_, _)
\* a < b on strings: the first differing code unit decides, a proper prefix is smaller
LexLess(s, t) ==
  IF t = <<>> THEN FALSE
  ELSE IF s = <<>> THEN TRUE
  ELSE IF s[1] = t[1] THEN LexLess(Tail(s), Tail(t))
  ELSE Code(s[1]) < Code(t[1])

\* Set.prototype.add on a Set kept in insertion order
SetAdd(s, x) == IF x \in Range(s) THEN s ELSE Append(s, x)

RECURSIVE SetAddAll(_, _)
SetAddAll(s, xs) == IF xs = <<>> THEN s ELSE SetAddAll(SetAdd(s, xs[1]), Tail(xs))

StartsWith(s, p) == Len(s) >= Len(p) /\ SubSeq(s, 1, Len(p)) = p

(***************************************************************************)
(* makeUnionFind                                                           *)
(***************************************************************************)
\* Map.prototype.set on a Map modelled as a function
MapSet(m, k, v) == [x \in DOMAIN m \cup {k} |-> IF x = k THEN v ELSE m[x]]

\* makeUnionFind(items): parent.set(x, x) for every item
InitParent(items) == [x \in items |-> x]

\* makeUnionFind(items): size.set(x, 1) for every item
InitSize(items) == [x \in items |-> 1]

\* if (!p) return x; if (p === x) return x;  -- !p holds for undefined and for ""
IsRoot(p, x) == x \notin DOMAIN p \/ p[x] = <<>> \/ p[x] = x

RECURSIVE find(_, _)
\* the value find(x) returns
find(p, x) == IF IsRoot(p, x) THEN x ELSE find(p, p[x])

RECURSIVE FindPath(_, _)
\* the identifiers find(x) visits below the root it returns
FindPath(p, x) == IF IsRoot(p, x) THEN {} ELSE {x} \cup FindPath(p, p[x])

\* the parent map after find(x): parent.set(y, r) for every visited y
Compress(p, x) ==
  LET r == find(p, x)
      path == FindPath(p, x)
  IN [y \in DOMAIN p |-> IF y \in path THEN r ELSE p[y]]

\* size.get(r) || 1
SizeOf(s, r) == IF r \in DOMAIN s /\ s[r] # 0 THEN s[r] ELSE 1

\* union(a, b) on the forest uf = [parent, size]
union(uf, a, b) ==
  LET p1 == Compress(uf.parent, a)
      ra == find(uf.parent, a)
      p2 == Compress(p1, b)
      rb == find(p1, b)
      sa == SizeOf(uf.size, ra)
      sb == SizeOf(uf.size, rb)
  IN IF ra = rb THEN [parent |-> p2, size |-> uf.size]
     ELSE IF sa < sb
       THEN [parent |-> MapSet(p2, ra, rb), size |-> MapSet(uf.size, rb, sa + sb)]
       ELSE [parent |-> MapSet(p2, rb, ra), size |-> MapSet(uf.size, ra, sa + sb)]

(***************************************************************************)
(* Signal extraction helpers                                               *)
(***************************************************************************)
\* the number of hexadecimal digits of a wallet address
AddrHexLen == 40

\* /^0x[a-fA-F0-9]{40}$/.test(x)
looksLikeEvmAddress(x) ==
  /\ Len(x) = 2 + AddrHexLen
  /\ x[1] = "0"
  /\ x[2] = "x"
  /\ \A i \in 3..Len(x) : IsHex(x[i])

\* whether /\b0x[a-fA-F0-9]{40}\b/ matches the text at position i
MatchesAt(text, i) ==
  /\ i + 1 + AddrHexLen <= Len(text)
  /\ looksLikeEvmAddress(SubSeq(text, i, i + 1 + AddrHexLen))
  /\ i = 1 \/ ~IsWordChar(text[i - 1])
  /\ i + 1 + AddrHexLen = Len(text) \/ ~IsWordChar(text[i + 2 + AddrHexLen])

RECURSIVE ScanFrom(_, _)
\* the loop over re.exec(text): the leftmost match at or after lastIndex = i, lowercased,
\* then the search resumes after it
ScanFrom(text, i) ==
  IF \E j \in i..Len(text) : MatchesAt(text, j)
    THEN LET j == CHOOSE j \in i..Len(text) :
                    MatchesAt(text, j) /\ \A k \in i..(j - 1) : ~MatchesAt(text, k)
         IN <<toLowerCase(SubSeq(text, j, j + 1 + AddrHexLen))>>
              \o ScanFrom(text, j + 2 + AddrHexLen)
    ELSE <<>>

extractEvmAddressesFromText(text) == ScanFrom(text, 1)

HttpsPrefix == << "h", "t", "t", "p", "s", ":", "/", "/" >>
WwwPrefix == << "w", "w", "w", "." >>

\* the characters of a host name
IsHostChar(c) == c \notin {"\n", " ", "/", ":", "_", "|"}

RECURSIVE TakeHost(_)
\* the leading characters of s up to its first "/"
TakeHost(s) == IF s = <<>> \/ s[1] = "/" THEN <<>> ELSE <<s[1]>> \o TakeHost(Tail(s))

\* new URL(l).hostname for the two shapes of link the inputs hold: "https://" followed by
\* a host name and an optional path parses, its host lowercased; a string without a
\* scheme does not parse (ok = FALSE stands for the TypeError the constructor throws)
ParseUrl(l) ==
  IF StartsWith(l, HttpsPrefix)
    THEN LET host == TakeHost(SubSeq(l, Len(HttpsPrefix) + 1, Len(l)))
         IN IF host # <<>> /\ \A i \in 1..Len(host) : IsHostChar(host[i])
              THEN [ok |-> TRUE, hostname |-> toLowerCase(host)]
              ELSE [ok |-> FALSE, hostname |-> <<>>]
    ELSE [ok |-> FALSE, hostname |-> <<>>]

\* u.hostname.replace(/^www\./, '').toLowerCase()
StripWww(h) ==
  toLowerCase(IF StartsWith(h, WwwPrefix) THEN SubSeq(h, Len(WwwPrefix) + 1, Len(h)) ELSE h)

RECURSIVE extractDomains(_)
extractDomains(links) ==
  IF links = <<>> THEN <<>>
  ELSE LET u == ParseUrl(links[1])
       IN (IF u.ok THEN <<StripWww(u.hostname)>> ELSE <<>>) \o extractDomains(Tail(links))

COMMON_DOMAINS ==
  { << "g", "i", "t", "h", "u", "b", ".", "c", "o", "m" >>,
    << "g", "i", "s", "t", ".", "g", "i", "t", "h", "u", "b", ".", "c", "o", "m" >>,
    << "r", "a", "w", ".", "g", "i", "t", "h", "u", "b", "u", "s", "e", "r", "c", "o", "n", "t", "e", "n", "t", ".", "c", "o", "m" >>,
    << "t", "w", "i", "t", "t", "e", "r", ".", "c", "o", "m" >>,
    << "x", ".", "c", "o", "m" >>,
    << "t", "a", "l", "e", "n", "t", ".", "a", "p", "p" >>,
    << "w", "a", "r", "p", "c", "a", "s", "t", ".", "c", "o", "m" >>,
    << "f", "a", "r", "c", "a", "s", "t", "e", "r", ".", "x", "y", "z" >>,
    << "t", ".", "m", "e" >>,
    << "t", "e", "l", "e", "g", "r", "a", "m", ".", "m", "e" >>,
    << "d", "i", "s", "c", "o", "r", "d", ".", "g", "g" >>,
    << "d", "i", "s", "c", "o", "r", "d", ".", "c", "o", "m" >>,
    << "l", "i", "n", "k", "t", "r", ".", "e", "e" >>,
    << "m", "e", "d", "i", "u", "m", ".", "c", "o", "m" >>,
    << "y", "o", "u", "t", "u", "b", "e", ".", "c", "o", "m" >>,
    << "y", "o", "u", "t", "u", ".", "b", "e" >> }

(***************************************************************************)
(* Maps and Sets of the resolver.  A Map the code iterates is a sequence   *)
(* of entries [k, v] in insertion order, a Set a sequence without          *)
(* repetition in insertion order.                                          *)
(***************************************************************************)
MapHas(m, k) == \E i \in 1..Len(m) : m[i].k = k

\* m.get(k) || d
MapGet(m, k, d) == IF MapHas(m, k) THEN m[CHOOSE i \in 1..Len(m) : m[i].k = k].v ELSE d

\* if (!m.has(k)) m.set(k, new Set()); m.get(k).add(a)
GroupAdd(m, k, a) ==
  IF MapHas(m, k)
    THEN [i \in 1..Len(m) |-> IF m[i].k = k THEN [k |-> k, v |-> SetAdd(m[i].v, a)] ELSE m[i]]
    ELSE Append(m, [k |-> k, v |-> <<a>>])

\* if (!m.has(k)) m.set(k, []); m.get(k).push(a)
GroupPush(m, k, a) ==
  IF MapHas(m, k)
    THEN [i \in 1..Len(m) |-> IF m[i].k = k THEN [k |-> k, v |-> Append(m[i].v, a)] ELSE m[i]]
    ELSE Append(m, [k |-> k, v |-> <<a>>])

RECURSIVE GroupAddAll(_, _)
\* GroupAdd of every <<key, member>> of pairs, in order
GroupAddAll(m, pairs) ==
  IF pairs = <<>> THEN m
  ELSE GroupAddAll(GroupAdd(m, pairs[1][1], pairs[1][2]), Tail(pairs))

RECURSIVE Concat(_)
Concat(ss) == IF ss = <<>> THEN <<>> ELSE ss[1] \o Concat(Tail(ss))

\* the <<key, actor>> pairs of the loop "for (const a of actors) for (key of keys(a))"
ActorPairs(actors, keys) ==
  Concat([i \in 1..Len(actors) |->
            [j \in 1..Len(keys[i]) |-> <<keys[i][j], actors[i]>>]])

(***************************************************************************)
(* The evidence ledger and connectMany                                     *)
(***************************************************************************)
Separator == << "|", "|" >>

\* a < b ? `${a}||${b}` : `${b}||${a}`
PairKey(a, b) == IF LexLess(a, b) THEN a \o Separator \o b ELSE b \o Separator \o a

\* a reason `${kind}: ${arg}` is the record [kind, arg]: no kind is a prefix of another,
\* so two reasons are the same string exactly when they are the same record
Reason(kind, arg) == [kind |-> kind, arg |-> arg]

\* addEvidence(a, b, reason)
addEvidence(ev, a, b, reason) ==
  LET key == PairKey(a, b)
      old == IF key \in DOMAIN ev THEN ev[key] ELSE <<>>
  IN MapSet(ev, key, SetAdd(old, reason))

RECURSIVE ConnectFrom(_, _, _, _)
\* the loop of connectMany over members[1..], on st = [parent, size, ev]
ConnectFrom(st, first, rest, reason) ==
  IF rest = <<>> THEN st
  ELSE LET uf == union([parent |-> st.parent, size |-> st.size], first, rest[1])
       IN ConnectFrom([parent |-> uf.parent, size |-> uf.size,
                       ev |-> addEvidence(st.ev, first, rest[1], reason)],
                      first, Tail(rest), reason)

connectMany(st, members, reason) ==
  IF Len(members) < 2 THEN st ELSE ConnectFrom(st, members[1], Tail(members), reason)

RECURSIVE ConnectGroups(_, _, _, _)
\* m.forEach((set, key) => { if (set.size < min) return; connectMany(Array.from(set), ...) })
ConnectGroups(st, m, min, kind) ==
  IF m = <<>> THEN st
  ELSE ConnectGroups(
         IF Len(m[1].v) < min THEN st ELSE connectMany(st, m[1].v, Reason(kind, m[1].k)),
         Tail(m), min, kind)

(***************************************************************************)
(* The signal passes of computeControllerGroups                            *)
(***************************************************************************)
MinLinkActors == 2
MinDomainActors == 3
MinStemActors == 4
MinBaseActors == 2
MinBaseLen == 3
MinWalletActors == 2
MinFunderWallets == 2

\* linksByActor.get(a) || []
LinksOf(in, a) == MapGet(in.linksByActor, a, <<>>)

\* 1) Shared exact links
linkToActors(in) ==
  GroupAddAll(<<>>, ActorPairs(in.actors, [i \in 1..Len(in.actors) |-> LinksOf(in, in.actors[i])]))

\* new Set(extractDomains(links).filter((d) => !COMMON_DOMAINS.has(d)))
UncommonDomains(links) ==
  SetAddAll(<<>>, SelectSeq(extractDomains(links), LAMBDA d : d \notin COMMON_DOMAINS))

\* 2) Shared uncommon domains
domainToActors(in) ==
  GroupAddAll(<<>>, ActorPairs(in.actors,
      [i \in 1..Len(in.actors) |-> UncommonDomains(LinksOf(in, in.actors[i]))]))

\* 3) Shared handle stems: handleStemByActor.forEach((stem, actor) => ...), "" skipped
stemToActors(in) ==
  LET m == in.handleStemByActor
      kept == SelectSeq(m, LAMBDA e : e.v # <<>>)
  IN GroupAddAll(<<>>, [i \in 1..Len(kept) |-> <<kept[i].v, kept[i].k>>])

RECURSIVE DropSpace(_)
DropSpace(s) == IF s # <<>> /\ IsSpace(s[1]) THEN DropSpace(Tail(s)) ELSE s

RECURSIVE DropSpaceEnd(_)
DropSpaceEnd(s) ==
  IF s # <<>> /\ IsSpace(s[Len(s)]) THEN DropSpaceEnd(SubSeq(s, 1, Len(s) - 1)) ELSE s

\* String.prototype.trim
trim(s) == DropSpaceEnd(DropSpace(s))

\* actor.split(':').length >= 2
HasColon(a) == \E i \in 1..Len(a) : a[i] = ":"

\* parts.slice(1).join(':').trim().toLowerCase(): what follows the first ":"
BaseHandle(a) ==
  LET i == CHOOSE j \in 1..Len(a) : a[j] = ":" /\ \A k \in 1..(j - 1) : a[k] # ":"
  IN toLowerCase(trim(SubSeq(a, i + 1, Len(a))))

\* the base handle of an actor as a list: empty when the actor is skipped
BaseKeys(a) ==
  IF ~HasColon(a) THEN <<>>
  ELSE IF Len(BaseHandle(a)) < MinBaseLen THEN <<>>
  ELSE <<BaseHandle(a)>>

\* 3b) Exact base handle match across platforms
baseHandleToActors(in) ==
  GroupAddAll(<<>>, ActorPairs(in.actors, [i \in 1..Len(in.actors) |-> BaseKeys(in.actors[i])]))

RECURSIVE Join(_, _)
\* Array.prototype.join
Join(ss, sep) ==
  IF ss = <<>> THEN <<>>
  ELSE IF Len(ss) = 1 THEN ss[1]
  ELSE ss[1] \o sep \o Join(Tail(ss), sep)

\* the wallets array of one actor, then new Set(wallets.filter(looksLikeEvmAddress))
WalletsOf(in, a) ==
  LET fromBio == extractEvmAddressesFromText(MapGet(in.bioByActor, a, <<>>))
      fromLinks == extractEvmAddressesFromText(Join(LinksOf(in, a), << "\n" >>))
      extra == MapGet(in.extraWalletsByActor, a, <<>>)
      self == IF looksLikeEvmAddress(a) THEN <<toLowerCase(a)>> ELSE <<>>
  IN SetAddAll(<<>>, SelectSeq(fromBio \o fromLinks \o extra \o self, looksLikeEvmAddress))

\* 4) Wallet address reuse
walletToActors(in) ==
  GroupAddAll(<<>>, ActorPairs(in.actors, [i \in 1..Len(in.actors) |-> WalletsOf(in, in.actors[i])]))

\* 5) Common funder across wallets: sharedFundersByWallet.forEach((funders, wallet) => ...)
funderToWallets(in) ==
  LET m == in.sharedFundersByWallet
  IN GroupAddAll(<<>>, Concat([i \in 1..Len(m) |->
       LET fs == SelectSeq(m[i].v, looksLikeEvmAddress)
       IN [j \in 1..Len(fs) |-> <<fs[j], m[i].k>>]]))

PassLinksOn(st, in) == ConnectGroups(st, linkToActors(in), MinLinkActors, "Shared link")
PassDomainsOn(st, in) == ConnectGroups(st, domainToActors(in), MinDomainActors, "Shared domain")
PassStemsOn(st, in) == ConnectGroups(st, stemToActors(in), MinStemActors, "Shared handle stem")
PassBaseOn(st, in) ==
  ConnectGroups(st, baseHandleToActors(in), MinBaseActors, "Same handle across platforms")
PassWalletsOn(st, in) == ConnectGroups(st, walletToActors(in), MinWalletActors, "Shared wallet")
PassFundersOn(st, in) == ConnectGroups(st, funderToWallets(in), MinFunderWallets, "Common funder")

(***************************************************************************)
(* Component materialization and scoring                                   *)
(***************************************************************************)
\* the number of reasons at which the pairwise scan stops, and the length of the
\* returned evidence list
EvidenceCap == 8

RECURSIVE CompressAll(_, _)
\* the parent map after uf.find(a) for every actor in turn
CompressAll(p, actors) ==
  IF actors = <<>> THEN p ELSE CompressAll(Compress(p, actors[1]), Tail(actors))

RECURSIVE RootPairs(_, _)
\* <<uf.find(a), a>> for every actor in turn
RootPairs(p, actors) ==
  IF actors = <<>> THEN <<>>
  ELSE << <<find(p, actors[1]), actors[1]>> >> \o RootPairs(Compress(p, actors[1]), Tail(actors))

RECURSIVE GroupPushAll(_, _)
GroupPushAll(m, pairs) ==
  IF pairs = <<>> THEN m
  ELSE GroupPushAll(GroupPush(m, pairs[1][1], pairs[1][2]), Tail(pairs))

rootToMembers(p, actors) == GroupPushAll(<<>>, RootPairs(p, actors))

RECURSIVE InsertSorted(_, _)
InsertSorted(sorted, x) ==
  IF sorted = <<>> THEN <<x>>
  ELSE IF LexLess(x, sorted[1]) THEN <<x>> \o sorted
  ELSE <<sorted[1]>> \o InsertSorted(Tail(sorted), x)

RECURSIVE SortStrings(_)
\* members.sort(): ascending by UTF-16 code units
SortStrings(s) == IF s = <<>> THEN <<>> ELSE InsertSorted(SortStrings(Tail(s)), s[1])

RECURSIVE ScanPairs(_, _, _, _, _)
\* the two nested loops over the pairs (i, j), i < j, of the sorted members, left as soon
\* as reasons.size >= 8
ScanPairs(members, i, j, reasons, ev) ==
  IF i > Len(members) THEN reasons
  ELSE IF j > Len(members) THEN ScanPairs(members, i + 1, i + 2, reasons, ev)
  ELSE LET k == PairKey(members[i], members[j])
           next == SetAddAll(reasons, IF k \in DOMAIN ev THEN ev[k] ELSE <<>>)
       IN IF Len(next) >= EvidenceCap THEN next
          ELSE ScanPairs(members, i, j + 1, next, ev)

\* reasonsArr of a group with these (sorted) members
GatherReasons(members, ev) == ScanPairs(members, 1, 2, <<>>, ev)

\* reasonsArr.some((r) => r.startsWith(`${kind}:`))
HasReason(reasons, kind) == \E i \in 1..Len(reasons) : reasons[i].kind = kind

Min(a, b) == IF a < b THEN a ELSE b
Max(a, b) == IF a > b THEN a ELSE b

\* the score in hundredths: 0.25 is 25, (n - 2) / 10 is 10 * (n - 2).  Two scores compare
\* as their hundredths do, except 0.25 + 0.1 + 0.10 < 0.25 + 0.2 in floating point, where
\* the tie-break of the sort by member count (3 against 4) decides the same way
BaseScore == 25
RampStep == 10
RampCap == 25
WalletBonus == 25
FunderBonus == 25
LinkBonus == 15
DomainBonus == 10
ScoreCap == 100

\* ScoreOf with the indicators read after the cut to EvidenceCap reasons
ScoreOfShownReasons(n, reasons) ==
  LET shown == SubSeq(reasons, 1, Min(Len(reasons), EvidenceCap))
  IN Min(ScoreCap,
         BaseScore + Min(RampStep * (n - 2), RampCap)
         + (IF HasReason(shown, "Shared wallet") THEN WalletBonus ELSE 0)
         + (IF HasReason(shown, "Common funder") THEN FunderBonus ELSE 0)
         + (IF HasReason(shown, "Shared link") THEN LinkBonus ELSE 0)
         + (IF HasReason(shown, "Shared domain") THEN DomainBonus ELSE 0))

ScoreOf(n, reasons) ==
  Min(ScoreCap,
      BaseScore + Min(RampStep * (n - 2), RampCap)
      + (IF HasReason(reasons, "Shared wallet") THEN WalletBonus ELSE 0)
      + (IF HasReason(reasons, "Common funder") THEN FunderBonus ELSE 0)
      + (IF HasReason(reasons, "Shared link") THEN LinkBonus ELSE 0)
      + (IF HasReason(reasons, "Shared domain") THEN DomainBonus ELSE 0))

\* TooSmall without the floor of 2
TooSmallNoFloor(members, minGroupSize) == Len(members) < minGroupSize

\* members.length < Math.max(2, minGroupSize)
TooSmall(members, minGroupSize) == Len(members) < Max(2, minGroupSize)

\* the ControllerGroup of one surviving component
MakeGroup(id, unsorted, ev) ==
  LET members == SortStrings(unsorted)
      reasonsArr == GatherReasons(members, ev)
  IN [controllerId |-> id,
      members |-> members,
      score |-> ScoreOf(Len(members), reasonsArr),
      evidence |-> SubSeq(reasonsArr, 1, Min(Len(reasonsArr), EvidenceCap))]

RECURSIVE BuildGroups(_, _, _, _)
\* rootToMembers.forEach((members) => ...): groups in the order they are pushed
BuildGroups(entries, id, ev, minGroupSize) ==
  IF entries = <<>> THEN <<>>
  ELSE IF TooSmall(entries[1].v, minGroupSize)
    THEN BuildGroups(Tail(entries), id, ev, minGroupSize)
    ELSE <<MakeGroup(id, entries[1].v, ev)>>
           \o BuildGroups(Tail(entries), id + 1, ev, minGroupSize)

RECURSIVE IdsByActor(_, _)
\* members.forEach((m) => controllerIdByActor.set(m, group.controllerId)), group by group
IdsByActor(m, gs) ==
  IF gs = <<>> THEN m
  ELSE IdsByActor([a \in DOMAIN m \cup Range(gs[1].members) |->
                     IF a \in Range(gs[1].members) THEN gs[1].controllerId ELSE m[a]],
                  Tail(gs))

\* SortsBefore with the scores compared the other way round
SortsBeforeAscending(a, b) ==
  \/ a.score < b.score
  \/ a.score = b.score /\ Len(a.members) > Len(b.members)

\* the comparator (a, b) => b.score - a.score || b.members.length - a.members.length < 0
SortsBefore(a, b) ==
  \/ a.score > b.score
  \/ a.score = b.score /\ Len(a.members) > Len(b.members)

RECURSIVE InsertGroup(_, _)
InsertGroup(sorted, g) ==
  IF sorted = <<>> THEN <<g>>
  ELSE IF SortsBefore(g, sorted[1]) THEN <<g>> \o sorted
  ELSE <<sorted[1]>> \o InsertGroup(Tail(sorted), g)

RECURSIVE SortGroupsFrom(_, _)
SortGroupsFrom(sorted, gs) ==
  IF gs = <<>> THEN sorted ELSE SortGroupsFrom(InsertGroup(sorted, gs[1]), Tail(gs))

\* groups.sort(...): Array.prototype.sort is stable
SortGroups(gs) == SortGroupsFrom(<<>>, gs)

\* the state after makeUnionFind(actors) and the empty ledger
StartState(in) ==
  [parent |-> InitParent(Range(in.actors)), size |-> InitSize(Range(in.actors)), ev |-> <<>>]

\* the state after the six passes
AfterPasses(in) ==
  PassFundersOn(PassWalletsOn(PassBaseOn(PassStemsOn(PassDomainsOn(PassLinksOn(
    StartState(in), in), in), in), in), in), in)

\* what "Build groups" returns from the state st
OutputOf(st, in) ==
  LET built == BuildGroups(rootToMembers(st.parent, in.actors), 0, st.ev, in.minGroupSize)
  IN [groups |-> SortGroups(built), controllerIdByActor |-> IdsByActor(<<>>, built)]

\* computeControllerGroups(input)
computeControllerGroups(in) == OutputOf(AfterPasses(in), in)

(***************************************************************************)
(* The forest on its own: union and find called in any order               *)
(***************************************************************************)
\* the number of identifiers union and find are called with
NumIds == 4

\* cap on the recorded component size, which repeated unions can grow without limit
MaxSize == 5

IdPool == << <<>>, <<"a">>, <<"b">>, <<"c">>, <<"d">>, <<"e">> >>

UFIds == {IdPool[i] : i \in 1..NumIds}

EmptyInput ==
  [actors |-> <<>>, linksByActor |-> <<>>, bioByActor |-> <<>>,
   handleStemByActor |-> <<>>, sharedFundersByWallet |-> <<>>,
   extraWalletsByActor |-> <<>>, minGroupSize |-> 1]

\* the items given to makeUnionFind: all of UFIds, or all but one
InitUF ==
  /\ pc = "uf"
  /\ \E drop \in 0..NumIds :
       LET items == SelectSeq(SubSeq(IdPool, 1, NumIds), LAMBDA x : drop = 0 \/ x # IdPool[drop])
       IN /\ input = [EmptyInput EXCEPT !.actors = items]
          /\ parent = InitParent(Range(items))
          /\ size = InitSize(Range(items))
  /\ unions = {}
  /\ evidenceByPair = <<>>
  /\ groups = <<>>
  /\ controllerIdByActor = <<>>

Union(a, b) ==
  /\ pc = "uf"
  /\ LET uf == union([parent |-> parent, size |-> size], a, b)
     IN /\ \A r \in DOMAIN uf.size : uf.size[r] <= MaxSize
        /\ parent' = uf.parent
        /\ size' = uf.size
  /\ unions' = unions \cup {{a, b}}
  /\ UNCHANGED <<pc, input, evidenceByPair, groups, controllerIdByActor>>

Find(x) ==
  /\ pc = "uf"
  /\ parent' = Compress(parent, x)
  /\ UNCHANGED <<pc, size, unions, input, evidenceByPair, groups, controllerIdByActor>>

\* union is called with two different identifiers, as connectMany calls it
NextUF ==
  \/ \E a \in UFIds : \E b \in UFIds \ {a} : Union(a, b)
  \/ \E x \in UFIds : Find(x)

SpecUF == InitUF /\ [][NextUF]_vars

(***************************************************************************)
(* The inputs of computeControllerGroups                                   *)
(***************************************************************************)
Rep(c, n) == [i \in 1..n |-> c]

\* the wallet-shaped string "0x" followed by 40 times the character c
Wallet(c) == << "0", "x" >> \o Rep(c, AddrHexLen)

Empty == <<>>
C == << "c" >>
XA == << "x", ":", "a", "b", "c" >>
YA == << "y", ":", "A", "b", "c", " " >>
WA == Wallet("A")
WB == Wallet("b")

\* the identifiers the actor list is drawn from
ActorPool == << Empty, C, XA, YA, WA, WB >>

\* the longest actor list
MaxActors == 4

\* the largest minGroupSize
MaxMinGroupSize == 3

RECURSIVE ActorLists(_)
\* the lists of n pairwise different identifiers of ActorPool
ActorLists(n) ==
  IF n = 0 THEN {<<>>}
  ELSE UNION {{Append(l, a) : a \in Range(ActorPool) \ Range(l)} : l \in ActorLists(n - 1)}

\* "https://t.me/<d>": a link on a denylisted domain
Tme(d) == HttpsPrefix \o << "t", ".", "m", "e", "/", d >>

\* "https://s.io/<d>" and "https://www.S.io/<d>": links on the same uncommon domain
Sio(d) == HttpsPrefix \o << "s", ".", "i", "o", "/", d >>
WwwSio(d) == HttpsPrefix \o << "w", "w", "w", ".", "s", ".", "i", "o", "/", d >>

\* a string new URL() rejects
NotAUrl == << "z", "z" >>

Entry(k, v) == [k |-> k, v |-> v]

NoAttributes ==
  [linksByActor |-> <<>>, bioByActor |-> <<>>, handleStemByActor |-> <<>>,
   sharedFundersByWallet |-> <<>>, extraWalletsByActor |-> <<>>]

\* two links on a denylisted domain shared in different orders
SharedLinks ==
  [NoAttributes EXCEPT
     !.linksByActor = << Entry(Empty, << Tme("0"), Tme("1") >>),
                         Entry(C, << Tme("1"), Tme("0") >>),
                         Entry(XA, << Tme("0") >>) >>]

\* one uncommon domain reached through pairwise different links
SharedDomain ==
  [NoAttributes EXCEPT
     !.linksByActor = << Entry(Empty, << Sio("0") >>),
                         Entry(C, << Sio("1"), Tme("1") >>),
                         Entry(WB, << WwwSio("2") >>),
                         Entry(XA, << NotAUrl, Sio("3"), Sio("4") >>) >>]

\* one stem on four identifiers, an empty stem, a stem of one identifier
SharedStem ==
  [NoAttributes EXCEPT
     !.handleStemByActor = << Entry(WB, << "s" >>), Entry(C, << "s" >>),
                              Entry(XA, << "s" >>), Entry(Empty, <<>>),
                              Entry(WA, << "s" >>), Entry(YA, << "t" >>) >>]

\* the address of WA in a bio (upper case), in a link and as an extra wallet (upper case)
SharedWallet ==
  [NoAttributes EXCEPT
     !.bioByActor = << Entry(C, << "p", "a", "y", " " >> \o Wallet("A") \o << "." >>),
                       Entry(YA, Wallet("a") \o << "f" >>) >>,
     !.linksByActor = << Entry(Empty, << Tme("0") \o << "/" >> \o Wallet("a") >>) >>,
     !.extraWalletsByActor = << Entry(XA, << Wallet("A"), C >>) >>]

\* two funders, each funding the wallet Wallet("c") and one of WA, WB
SharedFunder ==
  [NoAttributes EXCEPT
     !.sharedFundersByWallet = << Entry(Wallet("c"), << Wallet("f"), Wallet("1") >>),
                                  Entry(WB, << Wallet("f"), C >>),
                                  Entry(WA, << Wallet("1") >>) >>]

\* one funder funding WA and WB
DirectFunder ==
  [NoAttributes EXCEPT
     !.sharedFundersByWallet = << Entry(WB, << Wallet("f") >>),
                                  Entry(WA, << Wallet("f") >>) >>]

EightLinks == [i \in 1..EvidenceCap |-> Tme(<< "0", "1", "2", "3", "4", "5", "6", "7" >>[i])]

\* eight shared links and a shared wallet on the same two actors
ManyReasons ==
  [NoAttributes EXCEPT
     !.linksByActor = << Entry(C, EightLinks), Entry(XA, EightLinks) >>,
     !.bioByActor = << Entry(C, Wallet("d")), Entry(XA, Wallet("D")) >>]

Profiles ==
  { NoAttributes, SharedLinks, SharedDomain, SharedStem, SharedWallet, SharedFunder,
    DirectFunder, ManyReasons }

InputOf(actors, profile, minGroupSize) ==
  [actors |-> actors,
   linksByActor |-> profile.linksByActor,
   bioByActor |-> profile.bioByActor,
   handleStemByActor |-> profile.handleStemByActor,
   sharedFundersByWallet |-> profile.sharedFundersByWallet,
   extraWalletsByActor |-> profile.extraWalletsByActor,
   minGroupSize |-> minGroupSize]

(***************************************************************************)
(* computeControllerGroups, one step per pass                              *)
(***************************************************************************)
State == [parent |-> parent, size |-> size, ev |-> evidenceByPair]

Becomes(st) ==
  /\ parent' = st.parent
  /\ size' = st.size
  /\ evidenceByPair' = st.ev

\* const uf = makeUnionFind(actors); const evidenceByPair = new Map()
Init ==
  /\ pc = "links"
  /\ \E n \in 1..MaxActors : \E actors \in ActorLists(n) : \E profile \in Profiles :
       \E minGroupSize \in 1..MaxMinGroupSize :
         input = InputOf(actors, profile, minGroupSize)
  /\ parent = StartState(input).parent
  /\ size = StartState(input).size
  /\ evidenceByPair = StartState(input).ev
  /\ unions = {}
  /\ groups = <<>>
  /\ controllerIdByActor = <<>>

PassLinks ==
  /\ pc = "links"
  /\ Becomes(PassLinksOn(State, input))
  /\ pc' = "domains"
  /\ UNCHANGED <<unions, input, groups, controllerIdByActor>>

PassDomains ==
  /\ pc = "domains"
  /\ Becomes(PassDomainsOn(State, input))
  /\ pc' = "stems"
  /\ UNCHANGED <<unions, input, groups, controllerIdByActor>>

PassStems ==
  /\ pc = "stems"
  /\ Becomes(PassStemsOn(State, input))
  /\ pc' = "base"
  /\ UNCHANGED <<unions, input, groups, controllerIdByActor>>

PassBase ==
  /\ pc = "base"
  /\ Becomes(PassBaseOn(State, input))
  /\ pc' = "wallets"
  /\ UNCHANGED <<unions, input, groups, controllerIdByActor>>

PassWallets ==
  /\ pc = "wallets"
  /\ Becomes(PassWalletsOn(State, input))
  /\ pc' = "funders"
  /\ UNCHANGED <<unions, input, groups, controllerIdByActor>>

PassFunders ==
  /\ pc = "funders"
  /\ Becomes(PassFundersOn(State, input))
  /\ pc' = "build"
  /\ UNCHANGED <<unions, input, groups, controllerIdByActor>>

\* "Build groups" to the return statement, the final sort included
Materialize ==
  /\ pc = "build"
  /\ LET out == OutputOf(State, input)
     IN /\ groups' = out.groups
        /\ controllerIdByActor' = out.controllerIdByActor
  /\ parent' = CompressAll(parent, input.actors)
  /\ pc' = "done"
  /\ UNCHANGED <<size, unions, input, evidenceByPair>>

Next ==
  \/ PassLinks
  \/ PassDomains
  \/ PassStems
  \/ PassBase
  \/ PassWallets
  \/ PassFunders
  \/ Materialize

Spec == Init /\ [][Next]_vars

(***************************************************************************)
(* Properties of the forest                                                *)
(***************************************************************************)
\* the identifiers given to makeUnionFind
Registered == Range(input.actors)

RECURSIVE Reach(_)
\* the identifiers linked to one of S by a chain of the union calls made so far
Reach(S) ==
  LET more == S \cup UNION {e \in unions : e \cap S # {}}
  IN IF more = S THEN S ELSE Reach(more)

\* C1: after any sequence of union calls, find(x) = find(y) holds for two registered
\* identifiers exactly when a chain of the union calls made so far connects them (so the
\* partition depends on the set of calls only, not on their order)
C1_FindIsConnectivity ==
  pc = "uf" =>
    \A x \in Registered : \A y \in Registered :
      (find(parent, x) = find(parent, y)) <=> (y \in Reach({x}))

\* C9: the size recorded for each root (1 when none is recorded) is the number of
\* identifiers whose root it is
C9_SizeIsExact ==
  pc = "uf" =>
    \A r \in UFIds :
      find(parent, r) = r =>
        SizeOf(size, r) = Cardinality({x \in UFIds : find(parent, x) = r})

(***************************************************************************)
(* Properties of computeControllerGroups                                   *)
(***************************************************************************)
Done == pc = "done"

Actors == Range(input.actors)

GroupIndexes == 1..Len(groups)

MembersOf(i) == Range(groups[i].members)

\* a and b are members of one returned group
Together(a, b) == \E i \in GroupIndexes : {a, b} \subseteq MembersOf(i)

\* every identifier a pass can hand to connectMany
Identifiers ==
  Actors \cup {input.handleStemByActor[i].k : i \in 1..Len(input.handleStemByActor)}
         \cup {input.sharedFundersByWallet[i].k : i \in 1..Len(input.sharedFundersByWallet)}

\* no pass called union with a and another identifier: every such call leaves an entry
\* of the ledger
NeverUnioned(a) ==
  \A b \in Identifiers \ {a} : PairKey(a, b) \notin DOMAIN evidenceByPair

ClaimedScore(n, w, f, l, d) ==
  Min(100, 25 + Min(10 * (n - 2), 25) + 25 * w + 25 * f + 15 * l + 10 * d)

Indicator(reasons, kind) == IF \E i \in 1..Len(reasons) : reasons[i].kind = kind THEN 1 ELSE 0

ScoreFrom(n, reasons) ==
  ClaimedScore(n, Indicator(reasons, "Shared wallet"), Indicator(reasons, "Common funder"),
               Indicator(reasons, "Shared link"), Indicator(reasons, "Shared domain"))

\* C3 as stated: every group's score is the formula with the four indicators read from
\* the group's returned evidence list
C3_ScoreFromReturnedEvidence ==
  Done =>
    \A i \in GroupIndexes :
      groups[i].score = ScoreFrom(Len(groups[i].members), groups[i].evidence)

\* the reasons the pairwise scan of group i collected, before the cut to 8 for display
CollectedReasons(i) == GatherReasons(groups[i].members, evidenceByPair)

\* C3 as amended: every group's score is the formula with the four indicators read from
\* the reasons the scan collected before they are cut to 8 (the returned list when at
\* most 8 were collected, where the evidence list is all of them); the score lies in
\* [0, 1]; a group of 2 whose returned evidence has none of the indicators scores 0.25
C3_ScoreFromCollectedReasons ==
  Done =>
    \A i \in GroupIndexes :
      /\ groups[i].score = ScoreFrom(Len(groups[i].members), CollectedReasons(i))
      /\ Len(CollectedReasons(i)) <= 8 => groups[i].evidence = CollectedReasons(i)
      /\ Len(groups[i].evidence) <= 8
      /\ groups[i].score \in 0..100
      /\ (Len(groups[i].members) = 2 /\ ScoreFrom(2, groups[i].evidence) = 25)
           => groups[i].score = 25

\* a group whose scan collected more than 8 reasons, a shared wallet the ninth
C3_Witness ==
  /\ Done
  /\ \E i \in GroupIndexes :
       /\ Len(CollectedReasons(i)) > 8
       /\ Indicator(CollectedReasons(i), "Shared wallet") = 1
       /\ Indicator(groups[i].evidence, "Shared wallet") = 0

\* the candidate wallets of an actor: the wallet-shaped strings found in its bio and its
\* links, given as extra wallets, or the actor itself
CandidateWallets(a) == Range(WalletsOf(input, a))

\* C4: two distinct actors with the same wallet-shaped candidate up to letter case are
\* unioned by the wallet pass with the reason "Shared wallet: <lowercase address>", and
\* with minGroupSize <= 2 are returned in one group that scores at least 0.50 (stated
\* for actor lists without the empty identifier)
C4_SharedWalletGroups ==
  (Done /\ input.minGroupSize <= 2 /\ Empty \notin Actors) =>
    \A a \in Actors : \A b \in Actors \ {a} :
      \A wa \in CandidateWallets(a) : \A wb \in CandidateWallets(b) :
        toLowerCase(wa) = toLowerCase(wb) =>
          \E i \in GroupIndexes :
            /\ {a, b} \subseteq MembersOf(i)
            /\ groups[i].score >= 50

Quiet(m, min) == \A i \in 1..Len(m) : Len(m[i].v) < min

\* the actors whose links reach the uncommon domain d
DomainActors(d) == {a \in Actors : d \in Range(UncommonDomains(LinksOf(input, a)))}

\* the actors whose handle stem is s
StemActors(s) == {a \in Actors : MapGet(input.handleStemByActor, a, <<>>) = s}

AllDomains == UNION {Range(UncommonDomains(LinksOf(input, a))) : a \in Actors}
AllStems == {input.handleStemByActor[i].v : i \in 1..Len(input.handleStemByActor)} \ {<<>>}

\* no signal other than the shared domain
OnlyDomains ==
  /\ Quiet(linkToActors(input), MinLinkActors)
  /\ Quiet(stemToActors(input), MinStemActors)
  /\ Quiet(baseHandleToActors(input), MinBaseActors)
  /\ Quiet(walletToActors(input), MinWalletActors)
  /\ Quiet(funderToWallets(input), MinFunderWallets)

\* no signal other than the shared stem
OnlyStems ==
  /\ Quiet(linkToActors(input), MinLinkActors)
  /\ Quiet(domainToActors(input), MinDomainActors)
  /\ Quiet(baseHandleToActors(input), MinBaseActors)
  /\ Quiet(walletToActors(input), MinWalletActors)
  /\ Quiet(funderToWallets(input), MinFunderWallets)

GroupedWith(S, reason) ==
  \E i \in GroupIndexes :
    /\ S \subseteq MembersOf(i)
    /\ \E j \in 1..Len(groups[i].evidence) : groups[i].evidence[j] = reason

\* C5: with no other signal, a domain shared by exactly 2 actors groups nobody and one
\* shared by exactly 3 groups them with "Shared domain"; a stem shared by exactly 3 actors
\* groups nobody and one shared by 4 groups them with "Shared handle stem" (stated for
\* actor lists without the empty identifier, minGroupSize <= 2)
C5_Thresholds ==
  (Done /\ input.minGroupSize <= 2 /\ Empty \notin Actors) =>
    /\ OnlyDomains =>
         \A d \in AllDomains :
           /\ Cardinality(DomainActors(d)) = 2 =>
                \A a \in DomainActors(d) : \A b \in DomainActors(d) \ {a} : ~Together(a, b)
           /\ Cardinality(DomainActors(d)) = 3 =>
                GroupedWith(DomainActors(d), Reason("Shared domain", d))
    /\ OnlyStems =>
         \A s \in AllStems :
           /\ Cardinality(StemActors(s)) = 3 =>
                \A a \in StemActors(s) : \A b \in StemActors(s) \ {a} : ~Together(a, b)
           /\ Cardinality(StemActors(s)) = 4 =>
                GroupedWith(StemActors(s), Reason("Shared handle stem", s))

Reverse(s) == [i \in 1..Len(s) |-> s[Len(s) + 1 - i]]

\* what a caller sees of a list of groups when the order of an evidence list is ignored
Shown(gs) ==
  [i \in 1..Len(gs) |->
     [members |-> gs[i].members, score |-> gs[i].score, evidence |-> Range(gs[i].evidence)]]

\* C6: two actors A and B sharing a link are grouped the same way, with the same members,
\* evidence and score, whether the actor list is [A, B] or [B, A]
C6_Symmetry ==
  (Done /\ Len(input.actors) = 2
        /\ Range(LinksOf(input, input.actors[1])) \cap Range(LinksOf(input, input.actors[2])) # {})
    => Shown(computeControllerGroups([input EXCEPT !.actors = Reverse(input.actors)]).groups)
         = Shown(groups)

\* C7: a key w of sharedFundersByWallet that is in no actor's candidate wallet set changes
\* nothing: the groups and controllerIdByActor are those returned with w's entry removed
\* (stated for actor lists without the empty identifier, and for keys w that are in no
\* candidate set even when letter case is ignored)
C7_UnseenWalletIsInert ==
  (Done /\ Empty \notin Actors) =>
    \A n \in 1..Len(input.sharedFundersByWallet) :
      LET w == input.sharedFundersByWallet[n].k
          without == SelectSeq(input.sharedFundersByWallet, LAMBDA e : e.k # w)
          out == computeControllerGroups([input EXCEPT !.sharedFundersByWallet = without])
      IN (\A a \in Actors : {w, toLowerCase(w)} \cap CandidateWallets(a) = {}) =>
           /\ out.groups = groups
           /\ out.controllerIdByActor = controllerIdByActor

\* the place in the actor list of the first member of group i
FirstMet(i) ==
  CHOOSE n \in 1..Len(input.actors) :
    /\ input.actors[n] \in MembersOf(i)
    /\ \A m \in 1..(n - 1) : input.actors[m] \notin MembersOf(i)

\* C8: the k returned groups carry the identifiers 0..k-1, each once, in the order their
\* components are first met in the actor list; the list is sorted by descending score,
\* then descending member count, and not renumbered; controllerIdByActor maps every
\* member of a group to that group's identifier
C8_GroupIdentifiers ==
  Done =>
    /\ {groups[i].controllerId : i \in GroupIndexes} = 0..(Len(groups) - 1)
    /\ \A i \in GroupIndexes : \A j \in GroupIndexes :
         /\ groups[i].controllerId < groups[j].controllerId => FirstMet(i) < FirstMet(j)
         /\ i < j =>
              \/ groups[i].score > groups[j].score
              \/ /\ groups[i].score = groups[j].score
                 /\ Len(groups[i].members) >= Len(groups[j].members)
    /\ \A i \in GroupIndexes : \A m \in MembersOf(i) :
         /\ m \in DOMAIN controllerIdByActor
         /\ controllerIdByActor[m] = groups[i].controllerId

\* two groups returned in the reverse of the order in which they were numbered
C8_Witness ==
  /\ Done
  /\ Len(groups) = 2
  /\ groups[1].controllerId = 1
  /\ groups[2].controllerId = 0
  /\ groups[1].score > groups[2].score

\* C10: the evidence list of every returned group is non-empty
C10_EvidenceNonEmpty ==
  (Done /\ Empty \notin Actors) => \A i \in GroupIndexes : groups[i].evidence # <<>>

====
